---- MODULE Spec2Model ----
(***************************************************************************)
(* Model of the lead pipeline of src/mian.py: the SQLite store (tables     *)
(* leads and outreach), ingestion (cmd_search / upsert_lead), the          *)
(* qualification pass (qualify_all), the draft pass                        *)
(* (draft_emails_for_stage) and the dispatcher (send_all / send_email).    *)
(*                                                                         *)
(* Every CLI command is one operating-system process working on the same   *)
(* database file.  A command is modelled as a process whose steps are the  *)
(* database transactions it commits (each `with db() as conn:` block is    *)
(* one transaction, hence one atomic step) and the external calls between  *)
(* them.  Several commands may run at once, so steps interleave.           *)
(*                                                                         *)
(* Conventions.  An Optional[...] value is a sequence: <<>> is None and    *)
(* <<v>> is the value v.  A rating (REAL) is held in tenths, 3.8 is 38. A  *)
(* table is the sequence of its rows in rowid (insertion) order, which is  *)
(* the order an unindexed SELECT returns them in.  uuid4() is a fresh      *)
(* value: the next natural number of the table it keys.                    *)
(*                                                                         *)
(* The batch agent of src/cursor_dxb_video_agent.py (read_csv_leads,       *)
(* embedded_leads, dedupe, qualify, export_scored_csv) is a separate       *)
(* program with no shared state; its strs are sequences of characters.     *)
(***************************************************************************)
EXTENDS Integers, Sequences, FiniteSets, TLC

\* ------------------------------------------------------------ bounds
MaxLeads == 2
MaxMsgs == 2
MaxRunning == 2
\* SpecRate: the messages of the run and the seconds the clock is followed for
RateMsgs == 3
MaxClock == 9
\* SpecQualify, SpecUpsert: the seconds the clock is followed for
MaxTicks == 1
\* SpecDedupe, SpecLoad: the longest batch
MaxBatch == 3
\* SpecLoad: the most rows of a file
MaxRows == 2
MaxScored == 2
MaxExported == 3

\* ------------------------------------------------- program constants
\* qualify_all's defaults (also the argparse defaults of `qualify`)
DefaultMinRating == 38
DefaultMinReviews == 5
DefaultMinScore == 3
\* SMTP_RATE_PER_MIN's default
SMTP_RATE_PER_MIN == 20
\* time.time() when the model starts: seconds since the epoch, far above 60
StartTime == 1000

None == <<>>
Some(v) == <<v>>
IsNone(o) == o = <<>>
\* Python truthiness of an Optional[str]: neither None nor ""
Truthy(o) == o # <<>> /\ o[1] # ""

Max2(a, b) == IF a >= b THEN a ELSE b

Stages == {"NEW", "QUALIFIED", "DISQUALIFIED", "CONTACTED"}

\* ------------------------------------------------------ ingestion input
\* The items a search can return (SerpAPI local_results, after the field
\* extraction of search_serpapi and try_extract_email_from_site).  The columns
\* source, category, phone, address, city, state, country and extras are
\* written by upsert_lead exactly like rating and are read by none of the
\* modelled operations; they are left out of the rows.
Item(n, r, c, e, w) ==
    [name |-> n, rating |-> r, review_count |-> c, email |-> e, website |-> w]

RawItems ==
    { Item("Al Noor", Some(45), Some(12), Some("info@alnoor.ae"), Some("alnoor.ae")),
      Item("Al Noor", Some(35), Some(12), Some("info@alnoor.ae"), Some("alnoor.ae")),
      Item("Taste",   None,     Some(5),  Some("hi@taste.ae"),    None),
      Item("Glow",    Some(38), Some(2),  None,                   Some("glow.ae")) }

\* The Lead object search_serpapi builds for an item: a fresh uuid4 id and the
\* dataclass default stage "NEW".
Lead(id, item, stage) ==
    [id |-> id, name |-> item.name, rating |-> item.rating,
     review_count |-> item.review_count, email |-> item.email,
     website |-> item.website, stage |-> stage]

VARIABLES
    leads,      \* table leads: Seq of rows
    outreach,   \* table outreach: Seq of rows
    clock,      \* wall clock, seconds after StartTime
    template,   \* EMAIL_TEMPLATE: the fields str.format must resolve
    qual,       \* qualify_all processes
    draft,      \* draft_emails_for_stage processes
    send,       \* send_all processes
    ups,        \* direct callers of upsert_lead and set_stage (library use)
    agent,      \* src/cursor_dxb_video_agent.py: the batch being loaded
    invoked,    \* history: per outreach id, how often send_email was called for it
    scored,     \* history: the calls of the scorers, each with what it returned
    csv         \* the file an export wrote last: Seq of rows under the header

vars == <<leads, outreach, clock, template, scored, csv, ups, agent, qual, draft, send, invoked>>

\* now(): int(time.time())
now == StartTime + clock

Qualifiers == {"q1", "q2"}
Drafters == {"d1"}
Senders == {"s1", "s2"}
Callers == {"u1", "u2"}

\* ------------------------------------------------------------ the store
LeadIds(ls) == {ls[k].id : k \in 1..Len(ls)}
LeadIndex(ls, id) == CHOOSE k \in 1..Len(ls) : ls[k].id = id
LeadById(ls, id) == ls[LeadIndex(ls, id)]

\* (mutant) the UPDATE SET list of the upsert leaves out email
UpsertRowKeepEmail(ls, lead, t1, t2) ==
    IF lead.id \in LeadIds(ls)
    THEN [ls EXCEPT ![LeadIndex(ls, lead.id)] =
            [@ EXCEPT !.name = lead.name, !.rating = lead.rating,
                      !.review_count = lead.review_count,
                      !.website = lead.website, !.updated_at = t2]]
    ELSE Append(ls, [id |-> lead.id, name |-> lead.name, rating |-> lead.rating,
                     review_count |-> lead.review_count, email |-> lead.email,
                     website |-> lead.website, stage |-> lead.stage,
                     created_at |-> t1, updated_at |-> t2])

\* upsert_lead: INSERT ... ON CONFLICT(id) DO UPDATE.  t1 and t2 are the two
\* now() calls of the parameter dict (created_at, updated_at); the now() calls
\* of one step read the same second.  A conflicting
\* row keeps id, stage and created_at, which the UPDATE SET list does not name.
UpsertRow(ls, lead, t1, t2) ==
    IF lead.id \in LeadIds(ls)
    THEN [ls EXCEPT ![LeadIndex(ls, lead.id)] =
            [@ EXCEPT !.name = lead.name, !.rating = lead.rating,
                      !.review_count = lead.review_count, !.email = lead.email,
                      !.website = lead.website, !.updated_at = t2]]
    ELSE Append(ls, [id |-> lead.id, name |-> lead.name, rating |-> lead.rating,
                     review_count |-> lead.review_count, email |-> lead.email,
                     website |-> lead.website, stage |-> lead.stage,
                     created_at |-> t1, updated_at |-> t2])

\* set_stage: UPDATE leads SET stage=?, updated_at=? WHERE id=?
SetStageRows(ls, lead_id, stage, t) ==
    [k \in 1..Len(ls) |->
        IF ls[k].id = lead_id
        THEN [ls[k] EXCEPT !.stage = stage, !.updated_at = t]
        ELSE ls[k]]

\* (mutant) the SELECT has no WHERE clause
SelectAllLeads(ls, stage) == ls

\* (mutant) the SELECT fetches only the first matching row
SelectFirstByStage(ls, stage) ==
    LET m == SelectSeq(ls, LAMBDA r : r.stage = stage)
    IN  IF m = <<>> THEN <<>> ELSE <<m[1]>>

\* SELECT * FROM leads WHERE stage=?
SelectByStage(ls, stage) == SelectSeq(ls, LAMBDA r : r.stage = stage)

\* ------------------------------------------------------- qualification
\* rule_based_score: the score and the keys of the notes dict
rule_based_score(lead, min_rating, min_reviews) ==
    LET ratingOk == ~IsNone(lead.rating) /\ lead.rating[1] >= min_rating
        reviewsOk == ~IsNone(lead.review_count) /\ lead.review_count[1] >= min_reviews
    IN  [score |-> (IF ratingOk THEN 2 ELSE 0) + (IF reviewsOk THEN 1 ELSE 0)
                   + (IF Truthy(lead.website) THEN 1 ELSE 0)
                   + (IF Truthy(lead.email) THEN 2 ELSE 0),
         notes |-> (IF ~IsNone(lead.rating) THEN {"rating"} ELSE {})
                   \cup (IF reviewsOk THEN {"reviews"} ELSE {})]

\* (mutant) the threshold is compared strictly
QualifyStageStrict(score, min_score) ==
    IF score > min_score THEN "QUALIFIED" ELSE "DISQUALIFIED"

\* qualify_all's branch: the stage a scored lead is moved to
QualifyStage(score, min_score) ==
    IF score >= min_score THEN "QUALIFIED" ELSE "DISQUALIFIED"

\* the values `qualify --min_rating --min_reviews --min_score` is run with
MinRatings == {DefaultMinRating}
MinReviews == {DefaultMinReviews}
MinScores == {DefaultMinScore, DefaultMinScore + 1}

QIdle ==
    [pc |-> "idle", rows |-> <<>>, i |-> 0, count |-> 0,
     min_rating |-> 0, min_reviews |-> 0, min_score |-> 0,
     nleads |-> 0, log |-> <<>>]

\* ------------------------------------------------------ email generation
\* The keyword arguments generate_email_body passes to str.format
FormatKwargs ==
    {"subject", "first_name", "observation", "value_prop", "category",
     "social_proof", "lead_magnet", "cta_duration", "sender_name", "org_name",
     "org_address", "unsub_url"}

\* EMAIL_TEMPLATE as shipped: its replacement fields.  Two of them are written
\* as Python expressions, which str.format takes as field names.
EMAIL_TEMPLATE ==
    {"subject", "first_name or 'there'", "observation", "value_prop",
     "category or 'businesses'", "social_proof", "lead_magnet", "cta_duration",
     "sender_name", "org_name", "org_address", "unsub_url"}

\* A template whose replacement fields are all keyword names: the renderer the
\* pipeline is specified with (it "must not fail for any well-formed lead").
PlainTemplate == FormatKwargs

\* generate_email_body: str.format raises KeyError for a replacement field
\* that is no keyword argument; otherwise subject and body are returned.  The
\* body is not read by any modelled decision and is left out.
generate_email_body(tpl, lead) ==
    IF tpl \subseteq FormatKwargs
    THEN [raised |-> FALSE, subject |-> <<"Quick question about", lead.name>>]
    ELSE [raised |-> TRUE, subject |-> <<>>]

\* the row draft_emails_for_stage inserts
DraftRow(id, lead_id, subject) ==
    [id |-> id, lead_id |-> lead_id, subject |-> subject, status |-> "DRAFT",
     sent_at |-> None, message_id |-> None]

DIdle == [pc |-> "idle", rows |-> <<>>, i |-> 0, count |-> 0]

\* ------------------------------------------------------------ dispatch
\* (mutant) the SELECT fetches only the first DRAFT row
DraftJoinFirst(os, ls) ==
    LET drafts == SelectSeq(os, LAMBDA o : o.status = "DRAFT" /\ o.lead_id \in LeadIds(ls))
    IN  [k \in 1..(IF drafts = <<>> THEN 0 ELSE 1) |->
            [oid |-> drafts[k].id, subject |-> drafts[k].subject,
             email |-> LeadById(ls, drafts[k].lead_id).email,
             lid |-> drafts[k].lead_id]]

\* send_all's SELECT: the DRAFT rows of outreach joined to their leads
DraftJoin(os, ls) ==
    LET drafts == SelectSeq(os, LAMBDA o : o.status = "DRAFT" /\ o.lead_id \in LeadIds(ls))
    IN  [k \in 1..Len(drafts) |->
            [oid |-> drafts[k].id, subject |-> drafts[k].subject,
             email |-> LeadById(ls, drafts[k].lead_id).email,
             lid |-> drafts[k].lead_id]]

\* send_email: (success, mid).  configured: the four SMTP_* variables are set.
\* smtp_ok: the SMTP session ran without an exception.  sendmail has one
\* recipient, so when it returns the recipient was accepted, resp is empty and
\* mid is a uuid4 (mids are not compared, one token stands for them).
send_email(configured, to_addr, smtp_ok) ==
    IF ~configured THEN [success |-> FALSE, mid |-> None]
    ELSE IF smtp_ok /\ Truthy(to_addr) THEN [success |-> TRUE, mid |-> Some("uuid4")]
    ELSE [success |-> FALSE, mid |-> None]

\* (mutant) the dry-run flag is ignored and send_email is called
AttemptIgnoringDryRun(dry_run, configured, to_addr, smtp_ok) ==
    [success |-> send_email(configured, to_addr, smtp_ok).success,
     mid |-> send_email(configured, to_addr, smtp_ok).mid,
     called |-> TRUE]

\* send_all, lines 412-420: what one iteration does for its message.  called:
\* send_email was called.  A dry run simulates a success without a provider id.
Attempt(dry_run, configured, to_addr, smtp_ok) ==
    IF dry_run
    THEN [success |-> TRUE, mid |-> None, called |-> FALSE]
    ELSE [success |-> send_email(configured, to_addr, smtp_ok).success,
          mid |-> send_email(configured, to_addr, smtp_ok).mid,
          called |-> TRUE]

MsgById(os, oid) == os[CHOOSE k \in 1..Len(os) : os[k].id = oid]

\* (mutant) sent_at is written for a delivered message only
UpdateOutreachSentOnly(os, oid, success, t, mid) ==
    [k \in 1..Len(os) |->
        IF os[k].id = oid
        THEN [os[k] EXCEPT !.status = IF success THEN "SENT" ELSE "ERROR",
                           !.sent_at = IF success THEN Some(t) ELSE os[k].sent_at,
                           !.message_id = mid]
        ELSE os[k]]

\* (mutant) only a delivered message is updated
UpdateOutreachOnSuccess(os, oid, success, t, mid) ==
    [k \in 1..Len(os) |->
        IF os[k].id = oid /\ success
        THEN [os[k] EXCEPT !.status = "SENT", !.sent_at = Some(t), !.message_id = mid]
        ELSE os[k]]

\* UPDATE outreach SET status=?, sent_at=?, message_id=? WHERE id=?
UpdateOutreach(os, oid, success, t, mid) ==
    [k \in 1..Len(os) |->
        IF os[k].id = oid
        THEN [os[k] EXCEPT !.status = IF success THEN "SENT" ELSE "ERROR",
                           !.sent_at = Some(t), !.message_id = mid]
        ELSE os[k]]

\* (mutant) a failed attempt ends the loop
NextAttemptBreak(i, success, n) == IF success THEN i + 1 ELSE n + 1

\* the index send_all's loop goes on with after an attempt
NextAttempt(i, success, n) == i + 1

\* interval = 60.0 / max(1, SMTP_RATE_PER_MIN)
Interval == 60 \div Max2(1, SMTP_RATE_PER_MIN)

\* (mutant) the limiter sleeps for the time already elapsed
SleepForElapsed(delta) == IF delta < Interval THEN delta ELSE 0

\* the time the rate limiter sleeps for a measured delta
SleepFor(delta) == IF delta < Interval THEN Interval - delta ELSE 0

SIdle ==
    [pc |-> "idle", dry_run |-> FALSE, configured |-> FALSE, rows |-> <<>>,
     i |-> 0, sent |-> 0, last_sent |-> 0, wake |-> 0,
     success |-> FALSE, mid |-> None,
     log |-> <<>>, starts |-> <<>>, returns |-> <<>>, nmsgs |-> 0]

\* ------------------------------------------------------------- actions
\* time passes: time.time() and now() read one second later
Tick ==
    /\ clock < MaxClock
    /\ clock' = clock + 1
    /\ UNCHANGED <<leads, outreach, template, scored, csv, ups, agent, qual, draft, send, invoked>>

\* cmd_search, one item of search_serpapi's result: a Lead with a fresh uuid4
\* id and stage "NEW" is handed to upsert_lead.
cmd_search(item) ==
    /\ Len(leads) < MaxLeads
    /\ leads' = UpsertRow(leads, Lead(Len(leads) + 1, item, "NEW"), now, now)
    /\ UNCHANGED <<outreach, clock, template, scored, csv, ups, agent, qual, draft, send, invoked>>

\* upsert_lead called with any Lead object: an id already stored or a new one,
\* and whatever stage the object carries.
upsert_lead(id, item, stage) ==
    /\ id \in LeadIds(leads) \/ (id = Len(leads) + 1 /\ Len(leads) < MaxLeads)
    /\ leads' = UpsertRow(leads, Lead(id, item, stage), now, now)
    /\ UNCHANGED <<outreach, clock, template, scored, csv, ups, agent, qual, draft, send, invoked>>

\* qualify_all, lines 300-303: the call and its SELECT of the NEW leads.
\* nleads (history) is the size of the table when the snapshot was taken.
qualify_select(q, min_rating, min_reviews, min_score) ==
    /\ qual[q].pc = "idle"
    /\ qual' = [qual EXCEPT ![q] =
            [pc |-> "loop", rows |-> SelectByStage(leads, "NEW"), i |-> 1,
             count |-> 0, min_rating |-> min_rating, min_reviews |-> min_reviews,
             min_score |-> min_score, nleads |-> Len(leads), log |-> <<>>]]
    /\ UNCHANGED <<leads, outreach, clock, template, scored, csv, ups, agent, draft, send, invoked>>

\* qualify_all, lines 304-311: one iteration, which scores the row of the
\* snapshot and commits set_stage.  log (history) records the write.
qualify_row(q) ==
    LET st == qual[q]
        lead == st.rows[st.i]
        score == rule_based_score(lead, st.min_rating, st.min_reviews).score
        stage == QualifyStage(score, st.min_score)
    IN  /\ st.pc = "loop"
        /\ st.i <= Len(st.rows)
        /\ leads' = SetStageRows(leads, lead.id, stage, now)
        /\ qual' = [qual EXCEPT ![q] =
                [@ EXCEPT !.i = st.i + 1,
                          !.count = IF stage = "QUALIFIED" THEN st.count + 1 ELSE st.count,
                          !.log = Append(st.log, [id |-> lead.id, stage |-> stage])]]
        /\ UNCHANGED <<outreach, clock, template, scored, csv, ups, agent, draft, send, invoked>>

\* qualify_all, lines 312-313: the loop is over and count is returned (the
\* command ends; cmd_qualify drops the value)
qualify_return(q) ==
    /\ qual[q].pc = "loop"
    /\ qual[q].i > Len(qual[q].rows)
    /\ qual' = [qual EXCEPT ![q] = QIdle]
    /\ UNCHANGED <<leads, outreach, clock, template, scored, csv, ups, agent, draft, send, invoked>>

\* draft_emails_for_stage("QUALIFIED", offer), lines 364-367: the call of
\* cmd_draft_emails and its SELECT
draft_select(d) ==
    /\ draft[d].pc \in {"idle", "raised"}
    /\ draft' = [draft EXCEPT ![d] =
            [pc |-> "loop", rows |-> SelectByStage(leads, "QUALIFIED"), i |-> 1,
             count |-> 0]]
    /\ UNCHANGED <<leads, outreach, clock, template, scored, csv, ups, agent, qual, send, invoked>>

\* draft_emails_for_stage, lines 368-378: one iteration.  A lead without an
\* email is skipped; otherwise the email is generated and, unless that raised
\* (the exception ends the command), a DRAFT row with a fresh uuid4 is inserted.
draft_row(d) ==
    LET st == draft[d]
        lead == st.rows[st.i]
        mail == generate_email_body(template, lead)
    IN  /\ st.pc = "loop"
        /\ st.i <= Len(st.rows)
        /\ IF ~Truthy(lead.email)
           THEN /\ draft' = [draft EXCEPT ![d] = [@ EXCEPT !.i = st.i + 1]]
                /\ UNCHANGED <<outreach, invoked>>
           ELSE IF mail.raised
           THEN /\ draft' = [draft EXCEPT ![d] = [@ EXCEPT !.pc = "raised"]]
                /\ UNCHANGED <<outreach, invoked>>
           ELSE /\ Len(outreach) < MaxMsgs
                /\ outreach' = Append(outreach,
                        DraftRow(Len(outreach) + 1, lead.id, mail.subject))
                /\ invoked' = Append(invoked, 0)
                /\ draft' = [draft EXCEPT ![d] =
                        [@ EXCEPT !.i = st.i + 1, !.count = st.count + 1]]
        /\ UNCHANGED <<leads, clock, template, scored, csv, ups, agent, qual, send>>

\* draft_emails_for_stage, lines 379-380: count is returned
draft_return(d) ==
    /\ draft[d].pc = "loop"
    /\ draft[d].i > Len(draft[d].rows)
    /\ draft' = [draft EXCEPT ![d] = DIdle]
    /\ UNCHANGED <<leads, outreach, clock, template, scored, csv, ups, agent, qual, send, invoked>>

\* send_all, lines 402-407: the call (dry_run from --dry_run, configured from
\* the process environment) and its SELECT of the DRAFT messages
\* nmsgs (history) is the size of outreach when the snapshot was taken.
send_select(s, dry_run, configured) ==
    /\ send[s].pc \in {"idle", "stopped"}
    /\ send' = [send EXCEPT ![s] =
            [SIdle EXCEPT !.pc = "loop", !.dry_run = dry_run,
                          !.configured = configured,
                          !.rows = DraftJoin(outreach, leads), !.i = 1,
                          !.nmsgs = Len(outreach)]]
    /\ UNCHANGED <<leads, outreach, clock, template, scored, csv, ups, agent, qual, draft, invoked>>

\* send_all, lines 409-421: the attempt of one iteration.  In a dry run the
\* success is simulated; otherwise send_email is called (the rate limiter's
\* wait before it touches no shared state and is not a step of its own here;
\* rate_limit, smtp_call and smtp_return below are the same lines with time).
send_attempt(s, smtp_ok) ==
    LET st == send[s]
        r == st.rows[st.i]
        res == Attempt(st.dry_run, st.configured, r.email, smtp_ok)
    IN  /\ st.pc = "loop"
        /\ st.i <= Len(st.rows)
        /\ send' = [send EXCEPT ![s] =
                [@ EXCEPT !.pc = "update", !.success = res.success, !.mid = res.mid,
                          !.last_sent = IF st.dry_run THEN @ ELSE now]]
        /\ invoked' = IF res.called
                      THEN [invoked EXCEPT ![r.oid] = @ + 1]
                      ELSE invoked
        /\ UNCHANGED <<leads, outreach, clock, template, scored, csv, ups, agent, qual, draft>>

\* send_all, lines 422-427: the transaction that records the attempt (the
\* message row and, on success, the lead's stage, committed together)
send_update(s) ==
    LET st == send[s]
        r == st.rows[st.i]
    IN  /\ st.pc = "update"
        /\ outreach' = UpdateOutreach(outreach, r.oid, st.success, now, st.mid)
        /\ leads' = IF st.success
                    THEN SetStageRows(leads, r.lid, "CONTACTED", now)
                    ELSE leads
        /\ send' = [send EXCEPT ![s] =
                [@ EXCEPT !.pc = "loop",
                          !.i = NextAttempt(st.i, st.success, Len(st.rows)),
                          !.sent = IF st.success THEN st.sent + 1 ELSE st.sent,
                          !.log = Append(st.log, [oid |-> r.oid, success |-> st.success])]]
        /\ UNCHANGED <<clock, template, scored, csv, ups, agent, qual, draft, invoked>>

\* send_all, lines 428-429: sent is returned
send_return(s) ==
    /\ send[s].pc = "loop"
    /\ send[s].i > Len(send[s].rows)
    /\ send' = [send EXCEPT ![s] = SIdle]
    /\ UNCHANGED <<leads, outreach, clock, template, scored, csv, ups, agent, qual, draft, invoked>>

\* ------------------------------------------- the batch agent: strings
\* A str is the sequence of its characters.  str.lower(), on the alphabet used
LowerChar(c) ==
    CASE c = "A" -> "a" [] c = "B" -> "b" [] c = "E" -> "e" [] c = "G" -> "g"
      [] c = "X" -> "x" [] OTHER -> c

Lower(str) == [k \in 1..Len(str) |-> LowerChar(str[k])]

\* the batch agent before anything is loaded
AgentIdle == [pc |-> "idle", rows |-> <<>>, leads |-> <<>>, out |-> <<>>]

\* (mutant) the key is compared as written
DedupeKeyExact(l) == <<l.name, l.contact, l.platform>>

\* dedupe: key = (l.name.lower(), l.contact.lower(), l.platform.lower())
DedupeKey(l) == <<Lower(l.name), Lower(l.contact), Lower(l.platform)>>

\* dedupe: the for loop, with its set seen and its list out
RECURSIVE dedupe_loop(_, _, _, _)
dedupe_loop(ls, k, seen, out) ==
    IF k > Len(ls) THEN out
    ELSE IF DedupeKey(ls[k]) \in seen
         THEN dedupe_loop(ls, k + 1, seen, out)
         ELSE dedupe_loop(ls, k + 1, seen \cup {DedupeKey(ls[k])}, Append(out, ls[k]))

dedupe(ls) == dedupe_loop(ls, 1, {}, <<>>)

\* (mutant) nothing is trimmed
NoStrip(str) == str

\* str.strip(): leading and trailing blanks go
RECURSIVE Strip(_)
Strip(str) ==
    IF str = <<>> THEN <<>>
    ELSE IF str[1] = " " THEN Strip(SubSeq(str, 2, Len(str)))
    ELSE IF str[Len(str)] = " " THEN Strip(SubSeq(str, 1, Len(str) - 1))
    ELSE str

\* row.get(key): the cell of the column, None when the header has no such
\* column.  A file's header is capitalised ("Name", ...) or lower-case.
Get(file, row, key) ==
    IF (file.header = "Title" /\ key \in {"Name", "Niche", "Contact", "Platform"})
    THEN row[key]
    ELSE IF file.header = "lower" /\ key = "name" THEN row["Name"]
    ELSE IF file.header = "lower" /\ key = "niche" THEN row["Niche"]
    ELSE IF file.header = "lower" /\ key = "contact" THEN row["Contact"]
    ELSE IF file.header = "lower" /\ key = "platform" THEN row["Platform"]
    ELSE None

\* Python's `a or b` on Optional[str] operands; `x or ""` is OrStr(x, Some(<<>>))
OrStr(a, b) == IF a # None /\ a[1] # <<>> THEN a ELSE b

\* read_csv_leads, lines 246-253: the loop over the rows; the id of a Lead is
\* a fresh uuid4, here the number of its row
RECURSIVE read_csv_loop(_, _, _)
read_csv_loop(file, k, acc) ==
    IF k > Len(file.rows) THEN acc
    ELSE LET row == file.rows[k]
             col(K, l) == OrStr(OrStr(Get(file, row, K), Get(file, row, l)), Some(<<>>))[1]
             name == Strip(col("Name", "name"))
             niche == Lower(Strip(col("Niche", "niche")))
             contact == Strip(col("Contact", "contact"))
             platform == Lower(Strip(col("Platform", "platform")))
         IN  IF name = <<>> \/ contact = <<>> \/ platform = <<>>
             THEN read_csv_loop(file, k + 1, acc)
             ELSE read_csv_loop(file, k + 1,
                      Append(acc, [id |-> k, name |-> name, niche |-> niche,
                                   contact |-> contact, platform |-> platform]))

read_csv_leads(file) == dedupe(read_csv_loop(file, 1, <<>>))

\* embedded_leads, lines 259-266: the loop over EMBEDDED_LEADS, whose keys are
\* capitalised and looked up as such
RECURSIVE embedded_loop(_, _, _)
embedded_loop(rows, k, acc) ==
    IF k > Len(rows) THEN acc
    ELSE LET row == rows[k]
             col(K) == OrStr(row[K], Some(<<>>))[1]
             name == Strip(col("Name"))
             niche == Lower(Strip(col("Niche")))
             contact == Strip(col("Contact"))
             platform == Lower(Strip(col("Platform")))
         IN  IF name = <<>> \/ contact = <<>> \/ platform = <<>>
             THEN embedded_loop(rows, k + 1, acc)
             ELSE embedded_loop(rows, k + 1,
                      Append(acc, [id |-> k, name |-> name, niche |-> niche,
                                   contact |-> contact, platform |-> platform]))

embedded_leads(rows) == dedupe(embedded_loop(rows, 1, <<>>))

\* no export has written a file
NoFile == [fn |-> "none", given |-> <<>>, rows |-> <<>>]

\* an upsert_lead caller before its call; base (history) is the table when
\* the first of the concurrent calls was made
UIdle == [pc |-> "idle", lead |-> <<>>, t1 |-> 0, t2 |-> 0]
\* last: the last direct set_stage call (lead id, stage, how the call ended)
NoCall == [id |-> 0, stage |-> "", outcome |-> "none"]
UpsInit == [callers |-> [u \in Callers |-> UIdle], base |-> <<>>, last |-> NoCall]

\* ------------------------------------------------------- specification
\* After the module is imported: the schema exists and both tables are empty.
\* template is EMAIL_TEMPLATE as shipped or the conforming PlainTemplate.
Init ==
    /\ leads = <<>>
    /\ outreach = <<>>
    /\ clock = 0
    /\ template \in {EMAIL_TEMPLATE, PlainTemplate}
    /\ ups = UpsInit
    /\ agent = AgentIdle
    /\ qual = [q \in Qualifiers |-> QIdle]
    /\ draft = [d \in Drafters |-> DIdle]
    /\ send = [s \in Senders |-> SIdle]
    /\ invoked = <<>>
    /\ scored = {}
    /\ csv = NoFile

\* no command is running
AllIdle ==
    /\ \A q \in Qualifiers : qual[q].pc = "idle"
    /\ \A d \in Drafters : draft[d].pc \in {"idle", "raised"}
    /\ \A s \in Senders : send[s].pc \in {"idle", "stopped"}

\* Spec: the commands are run one after the other, as the CLI is meant to be
\* used, while records may be upserted at any moment.  The clock stands still
\* (every timestamp is StartTime); SpecRate is the specification with time.
Next ==
    \/ \E item \in RawItems : cmd_search(item)
    \/ \E id \in LeadIds(leads), item \in RawItems :
          item.name = LeadById(leads, id).name /\ upsert_lead(id, item, "NEW")
    \/ \E mr \in MinRatings, mv \in MinReviews, ms \in MinScores :
          AllIdle /\ qualify_select("q1", mr, mv, ms)
    \/ qualify_row("q1")
    \/ qualify_return("q1")
    \/ AllIdle /\ draft_select("d1")
    \/ draft_row("d1")
    \/ draft_return("d1")
    \/ \E dry \in BOOLEAN, cfg \in BOOLEAN : AllIdle /\ send_select("s1", dry, cfg)
    \/ \E ok \in BOOLEAN : send_attempt("s1", ok)
    \/ send_update("s1")
    \/ send_return("s1")

Spec == Init /\ [][Next]_vars

\* the commands that are running
Running ==
    {q \in Qualifiers : qual[q].pc # "idle"}
    \cup {d \in Drafters : draft[d].pc \notin {"idle", "raised"}}
    \cup {s \in Senders : send[s].pc # "idle"}

\* SpecRace: up to MaxRunning commands run at the same time (out of two
\* qualify, one draft-emails and two send-emails processes).  The processes of
\* a kind are interchangeable: the second one is the one started while the
\* first is running.
MayStart(p) ==
    /\ Cardinality(Running) < MaxRunning
    /\ p = "q2" => qual["q1"].pc # "idle"
    /\ p = "s2" => send["s1"].pc # "idle"

RaceItems == {item \in RawItems : item.name # "Taste" /\ item.rating # Some(35)}

NextRace ==
    \/ \E item \in RaceItems : cmd_search(item)
    \/ \E q \in Qualifiers, mr \in MinRatings, mv \in MinReviews, ms \in MinScores :
          MayStart(q) /\ qualify_select(q, mr, mv, ms)
    \/ \E q \in Qualifiers : qualify_row(q)
    \/ \E q \in Qualifiers : qualify_return(q)
    \/ \E d \in Drafters : MayStart(d) /\ draft_select(d)
    \/ \E d \in Drafters : draft_row(d)
    \/ \E d \in Drafters : draft_return(d)
    \/ \E s \in Senders, dry \in BOOLEAN : MayStart(s) /\ send_select(s, dry, TRUE)
    \/ \E s \in Senders, ok \in BOOLEAN : send_attempt(s, ok)
    \/ \E s \in Senders : send_update(s)
    \/ \E s \in Senders : send_return(s)

SpecRace == Init /\ [][NextRace]_vars

\* ------------------------------------------------- dispatch, with time
\* The non-dry-run iteration of send_all, lines 415-421, step by step.
\* time.time() is StartTime + clock, in whole seconds.
\* lines 417-419: delta is measured and, if it is short, time.sleep is called;
\* sleep returns no earlier than wake.
rate_limit(s) ==
    LET st == send[s]
        delta == now - st.last_sent
    IN  /\ st.pc = "loop"
        /\ ~st.dry_run
        /\ st.i <= Len(st.rows)
        /\ send' = [send EXCEPT ![s] =
                [@ EXCEPT !.pc = "sleep", !.wake = now + SleepFor(delta)]]
        /\ UNCHANGED <<leads, outreach, clock, template, scored, csv, ups, agent, qual, draft, invoked>>

\* line 420: the sleep is over and send_email is called.  starts (history)
\* records when.
smtp_call(s) ==
    LET st == send[s]
    IN  /\ st.pc = "sleep"
        /\ now >= st.wake
        /\ send' = [send EXCEPT ![s] =
                [@ EXCEPT !.pc = "smtp", !.starts = Append(st.starts, now)]]
        /\ invoked' = [invoked EXCEPT ![st.rows[st.i].oid] = @ + 1]
        /\ UNCHANGED <<leads, outreach, clock, template, scored, csv, ups, agent, qual, draft>>

\* lines 420-421: send_email returns and last_sent is read off the clock.
\* returns (history) records when.
smtp_return(s, smtp_ok) ==
    LET st == send[s]
        res == send_email(st.configured, st.rows[st.i].email, smtp_ok)
    IN  /\ st.pc = "smtp"
        /\ send' = [send EXCEPT ![s] =
                [@ EXCEPT !.pc = "update", !.success = res.success, !.mid = res.mid,
                          !.last_sent = now, !.returns = Append(st.returns, now)]]
        /\ UNCHANGED <<leads, outreach, clock, template, scored, csv, ups, agent, qual, draft, invoked>>

\* A store in which n leads were ingested, qualified and drafted (the state
\* the pipeline of Spec reaches with the conforming template after cmd_search,
\* qualify and draft-emails).
RateLeads(n) ==
    [k \in 1..n |->
        [id |-> k, name |-> "Al Noor", rating |-> Some(45), review_count |-> Some(12),
         email |-> Some("info@alnoor.ae"), website |-> Some("alnoor.ae"),
         stage |-> "QUALIFIED", created_at |-> StartTime, updated_at |-> StartTime]]

RateOutreach(n) ==
    [k \in 1..n |-> DraftRow(k, k, generate_email_body(PlainTemplate, RateLeads(n)[k]).subject)]

InitRate ==
    /\ \E n \in 1..RateMsgs :
          /\ leads = RateLeads(n)
          /\ outreach = RateOutreach(n)
          /\ invoked = [k \in 1..n |-> 0]
    /\ clock = 0
    /\ template = PlainTemplate
    /\ ups = UpsInit
    /\ agent = AgentIdle
    /\ qual = [q \in Qualifiers |-> QIdle]
    /\ draft = [d \in Drafters |-> DIdle]
    /\ send = [s \in Senders |-> SIdle]
    /\ scored = {}
    /\ csv = NoFile

\* SpecRate: one send-emails run (not a dry run) over the drafted store, with
\* the clock running.
NextRate ==
    \/ \E cfg \in BOOLEAN : send_select("s1", FALSE, cfg)
    \/ rate_limit("s1")
    \/ smtp_call("s1")
    \/ \E ok \in BOOLEAN : smtp_return("s1", ok)
    \/ send_update("s1")
    \/ send_return("s1")
    \/ Tick

SpecRate == InitRate /\ [][NextRate]_vars

\* ------------------------------------------------- drafting, email added
\* A lead found without an email, and the same record with one
GlowNoEmail == Item("Glow", Some(38), Some(2), None, Some("glow.ae"))
GlowWithEmail == Item("Glow", Some(38), Some(2), Some("hi@glow.ae"), Some("glow.ae"))

\* SpecDraft: leads are ingested without an email; upsert_lead on a stored id
\* may add (or remove) the email at any moment; the commands run one after the
\* other.
NextDraft ==
    \/ cmd_search(GlowNoEmail)
    \/ \E id \in LeadIds(leads), item \in {GlowNoEmail, GlowWithEmail} :
          upsert_lead(id, item, "NEW")
    \/ \E ms \in MinScores :
          AllIdle /\ qualify_select("q1", DefaultMinRating, DefaultMinReviews, ms)
    \/ qualify_row("q1")
    \/ qualify_return("q1")
    \/ AllIdle /\ draft_select("d1")
    \/ draft_row("d1")
    \/ draft_return("d1")
    \/ \E dry \in BOOLEAN : AllIdle /\ send_select("s1", dry, TRUE)
    \/ \E ok \in BOOLEAN : send_attempt("s1", ok)
    \/ send_update("s1")
    \/ send_return("s1")

SpecDraft == Init /\ [][NextDraft]_vars

\* ------------------------------------------- qualification, with time
\* SpecQualify: ingestion, qualification passes with any thresholds, drafting
\* and dry-run dispatch, one command after the other, with the clock running
\* (so a write of updated_at shows).
NextQualify ==
    \/ \E item \in RaceItems : cmd_search(item)
    \/ \E mr \in MinRatings, mv \in MinReviews, ms \in MinScores :
          AllIdle /\ qualify_select("q1", mr, mv, ms)
    \/ qualify_row("q1")
    \/ qualify_return("q1")
    \/ AllIdle /\ draft_select("d1")
    \/ draft_row("d1")
    \/ draft_return("d1")
    \/ AllIdle /\ send_select("s1", TRUE, TRUE)
    \/ \E ok \in BOOLEAN : send_attempt("s1", ok)
    \/ send_update("s1")
    \/ send_return("s1")
    \/ (clock < MaxTicks /\ Tick)

SpecQualify == Init /\ [][NextQualify]_vars

\* ------------------------------------------- concurrent upsert_lead calls
AlNoor == Item("Al Noor", Some(45), Some(12), Some("info@alnoor.ae"), Some("alnoor.ae"))
UpsertItems == {GlowNoEmail, GlowWithEmail, AlNoor}

\* upsert_lead, lines 191-196: a caller builds the parameter dict (the Lead's
\* fields and two now() readings).  Callers that run at the same time work on
\* the same lead id, stored or new.
upsert_call(u, id, item, stage) ==
    LET cs == ups.callers
        none == \A v \in Callers : cs[v].pc \in {"idle", "done"}
    IN  /\ cs[u].pc = "idle"
        /\ id \in LeadIds(leads) \/ (id = Len(leads) + 1 /\ Len(leads) < MaxLeads)
        /\ \A v \in Callers : cs[v].pc # "idle" => cs[v].lead[1].id = id
        /\ ups' = [callers |-> [cs EXCEPT ![u] =
                        [pc |-> "exec", lead |-> <<Lead(id, item, stage)>>,
                         t1 |-> now, t2 |-> now]],
                   base |-> IF none THEN leads ELSE ups.base,
                   last |-> ups.last]
        /\ UNCHANGED <<leads, outreach, clock, template, scored, csv, agent, qual, draft, send, invoked>>

\* upsert_lead, lines 168-190: the INSERT ... ON CONFLICT statement, one
\* transaction of SQLite
upsert_exec(u) ==
    LET c == ups.callers[u]
    IN  /\ c.pc = "exec"
        /\ leads' = UpsertRow(leads, c.lead[1], c.t1, c.t2)
        /\ ups' = [ups EXCEPT !.callers[u].pc = "done"]
        /\ UNCHANGED <<outreach, clock, template, scored, csv, agent, qual, draft, send, invoked>>

\* SpecUpsert: records are ingested, then two callers upsert the same id at
\* the same time, with the clock running.
NextUpsert ==
    \/ \E item \in UpsertItems :
          (\A u \in Callers : ups.callers[u].pc = "idle") /\ cmd_search(item)
    \/ \E id \in 1..MaxLeads, item \in UpsertItems, stage \in {"NEW", "QUALIFIED"} :
          upsert_call("u1", id, item, stage)
    \/ \E id \in 1..MaxLeads, item \in UpsertItems, stage \in {"NEW", "QUALIFIED"} :
          ups.callers["u1"].pc # "idle" /\ upsert_call("u2", id, item, stage)
    \/ \E u \in Callers : upsert_exec(u)
    \/ (clock < MaxTicks /\ Tick)

SpecUpsert == Init /\ [][NextUpsert]_vars

\* ------------------------------------------------- direct set_stage calls
\* How a set_stage call ends: conn.execute of an UPDATE raises nothing when
\* its WHERE clause matches no row, so the function returns None either way.
SetStageOutcome(ls, lead_id) == "returned"

\* set_stage(lead_id, stage), lines 200-202, called with any id
set_stage(lead_id, stage) ==
    /\ leads' = SetStageRows(leads, lead_id, stage, now)
    /\ ups' = [ups EXCEPT !.last = [id |-> lead_id, stage |-> stage,
                                    outcome |-> SetStageOutcome(leads, lead_id)]]
    /\ UNCHANGED <<outreach, clock, template, scored, csv, agent, qual, draft, send, invoked>>

\* SpecStage: records are ingested and set_stage is called with stored and
\* unknown ids, with the clock running.
NextStage ==
    \/ \E item \in RawItems : cmd_search(item)
    \/ \E id \in 1..(MaxLeads + 1), stage \in Stages : set_stage(id, stage)
    \/ (clock < MaxTicks /\ Tick)

SpecStage == Init /\ [][NextStage]_vars

\* ------------------------------------------------- a stopped dispatcher
\* The send-emails process is stopped (a signal, Ctrl-C) at the top of the
\* for loop of send_all, line 408, between two iterations.  The record of the
\* stopped run is kept (history) until the next run starts.
send_stop(s) ==
    /\ send[s].pc = "loop"
    /\ send' = [send EXCEPT ![s] = [@ EXCEPT !.pc = "stopped"]]
    /\ UNCHANGED <<leads, outreach, clock, template, scored, csv, ups, agent, qual, draft, invoked>>

\* SpecStop: the commands run one after the other and a dispatcher run may be
\* stopped between two attempts.
NextStop ==
    \/ \E item \in RaceItems : cmd_search(item)
    \/ \E mr \in MinRatings, mv \in MinReviews, ms \in MinScores :
          AllIdle /\ qualify_select("q1", mr, mv, ms)
    \/ qualify_row("q1")
    \/ qualify_return("q1")
    \/ AllIdle /\ draft_select("d1")
    \/ draft_row("d1")
    \/ draft_return("d1")
    \/ \E dry \in BOOLEAN : AllIdle /\ send_select("s1", dry, TRUE)
    \/ \E ok \in BOOLEAN : send_attempt("s1", ok)
    \/ send_update("s1")
    \/ send_return("s1")
    \/ send_stop("s1")

SpecStop == Init /\ [][NextStop]_vars

\* ------------------------------------------- drafting during a dispatch
\* SpecSnapshot: one dispatcher at a time, while draft-emails may run at any
\* moment, also in the middle of a dispatcher run.
NextSnapshot ==
    \/ \E item \in RaceItems : cmd_search(item)
    \/ \E mr \in MinRatings, mv \in MinReviews, ms \in MinScores :
          AllIdle /\ qualify_select("q1", mr, mv, ms)
    \/ qualify_row("q1")
    \/ qualify_return("q1")
    \/ qual["q1"].pc = "idle" /\ draft_select("d1")
    \/ draft_row("d1")
    \/ draft_return("d1")
    \/ \E dry \in BOOLEAN : qual["q1"].pc = "idle" /\ send_select("s1", dry, TRUE)
    \/ \E ok \in BOOLEAN : send_attempt("s1", ok)
    \/ send_update("s1")
    \/ send_return("s1")

SpecSnapshot == Init /\ [][NextSnapshot]_vars

\* ------------------------------------------------- a send that hangs
\* send_email, lines 389-394: smtplib.SMTP(SMTP_HOST, SMTP_PORT) is built
\* without a timeout and no default socket timeout is set, so every read of
\* the SMTP session blocks until the peer answers.  With a peer that accepts
\* the connection and never answers, no exception is raised and send_email
\* does not return: the process has no further step.
send_hang(s) ==
    LET st == send[s]
    IN  /\ st.pc = "loop"
        /\ st.i <= Len(st.rows)
        /\ ~st.dry_run /\ st.configured
        /\ send' = [send EXCEPT ![s] = [@ EXCEPT !.pc = "blocked"]]
        /\ invoked' = [invoked EXCEPT ![st.rows[st.i].oid] = @ + 1]
        /\ UNCHANGED <<leads, outreach, clock, template, scored, csv, ups, agent, qual, draft>>

\* SpecLive: the commands run one after the other; a process that can take a
\* step of send_all eventually takes it.
NextLive ==
    \/ \E item \in RaceItems : cmd_search(item)
    \/ \E mr \in MinRatings, mv \in MinReviews, ms \in MinScores :
          AllIdle /\ qualify_select("q1", mr, mv, ms)
    \/ qualify_row("q1")
    \/ qualify_return("q1")
    \/ AllIdle /\ draft_select("d1")
    \/ draft_row("d1")
    \/ draft_return("d1")
    \/ \E dry \in BOOLEAN : AllIdle /\ send_select("s1", dry, TRUE)
    \/ \E ok \in BOOLEAN : send_attempt("s1", ok)
    \/ send_hang("s1")
    \/ send_update("s1")
    \/ send_return("s1")

SpecLive ==
    /\ Init
    /\ [][NextLive]_vars
    /\ WF_vars(\E ok \in BOOLEAN : send_attempt("s1", ok))
    /\ WF_vars(send_update("s1"))
    /\ WF_vars(send_return("s1"))

\* ------------------------------------------------- the batch agent: dedupe
\* Lead objects (id, name, niche, contact, platform): the id is a fresh uuid4,
\* here the position in the batch.
LeadShapes ==
    [name : {<<"a">>, <<"A">>, <<"b">>}, niche : {<<"g">>},
     contact : {<<"x">>, <<"X">>}, platform : {<<"e">>, <<"E">>}]

WithIds(shapes) ==
    [k \in 1..Len(shapes) |->
        [id |-> k, name |-> shapes[k].name, niche |-> shapes[k].niche,
         contact |-> shapes[k].contact, platform |-> shapes[k].platform]]

LeadBatches == {WithIds(b) : b \in UNION {[1..n -> LeadShapes] : n \in 0..MaxBatch}}

\* dedupe(leads) is called
dedupe_call ==
    /\ agent.pc = "input"
    /\ agent' = [agent EXCEPT !.pc = "deduped", !.out = dedupe(agent.leads)]
    /\ UNCHANGED <<leads, outreach, clock, template, scored, csv, ups, qual, draft, send, invoked>>

\* dedupe is called on its own result
dedupe_again ==
    /\ agent.pc = "deduped"
    /\ agent' = [agent EXCEPT !.pc = "again", !.leads = agent.out,
                              !.out = dedupe(agent.out)]
    /\ UNCHANGED <<leads, outreach, clock, template, scored, csv, ups, qual, draft, send, invoked>>

InitDedupe ==
    /\ leads = <<>>
    /\ outreach = <<>>
    /\ clock = 0
    /\ template = EMAIL_TEMPLATE
    /\ ups = UpsInit
    /\ \E b \in LeadBatches : agent = [AgentIdle EXCEPT !.pc = "input", !.leads = b]
    /\ qual = [q \in Qualifiers |-> QIdle]
    /\ draft = [d \in Drafters |-> DIdle]
    /\ send = [s \in Senders |-> SIdle]
    /\ invoked = <<>>
    /\ scored = {}
    /\ csv = NoFile

\* SpecDedupe: dedupe applied to any batch of up to MaxBatch leads
NextDedupe == dedupe_call \/ dedupe_again

SpecDedupe == InitDedupe /\ [][NextDedupe]_vars

\* ------------------------------------------------- the batch agent: loading
\* Raw records: cells with blanks, capitals, the empty string, and None for a
\* cell the row does not have
RawRows ==
    [Name : {Some(<<" ">>), Some(<<"a">>), Some(<<" ", "A">>)},
     Niche : {Some(<<"G", " ">>), Some(<<>>)},
     Contact : {Some(<<>>), Some(<<"X", " ">>)},
     Platform : {None, Some(<<"E">>), Some(<<" ", "e">>)}]

RawBatches == UNION {[1..n -> RawRows] : n \in 0..MaxRows}

\* the sources of a batch: a CSV file with either header, or EMBEDDED_LEADS
RawFiles == [header : {"Title", "lower", "embedded"}, rows : RawBatches]

\* load_leads: the batch is read from the CSV file or from EMBEDDED_LEADS
load_csv ==
    /\ agent.pc = "file"
    /\ agent.rows.header \in {"Title", "lower"}
    /\ agent' = [agent EXCEPT !.pc = "loaded", !.out = read_csv_leads(agent.rows)]
    /\ UNCHANGED <<leads, outreach, clock, template, scored, csv, ups, qual, draft, send, invoked>>

load_embedded ==
    /\ agent.pc = "file"
    /\ agent.rows.header = "embedded"
    /\ agent' = [agent EXCEPT !.pc = "loaded", !.out = embedded_leads(agent.rows.rows)]
    /\ UNCHANGED <<leads, outreach, clock, template, scored, csv, ups, qual, draft, send, invoked>>

InitLoad ==
    /\ leads = <<>>
    /\ outreach = <<>>
    /\ clock = 0
    /\ template = EMAIL_TEMPLATE
    /\ ups = UpsInit
    /\ \E f \in RawFiles : agent = [AgentIdle EXCEPT !.pc = "file", !.rows = f]
    /\ qual = [q \in Qualifiers |-> QIdle]
    /\ draft = [d \in Drafters |-> DIdle]
    /\ send = [s \in Senders |-> SIdle]
    /\ invoked = <<>>
    /\ scored = {}
    /\ csv = NoFile

\* SpecLoad: any batch of up to MaxRows raw records is loaded
NextLoad == load_csv \/ load_embedded

SpecLoad == InitLoad /\ [][NextLoad]_vars

\* ------------------------------------------------- the pipeline, end to end
\* main, lines 493-496: a command has returned and its process is over.  The
\* record keeps what the command was run with.
qualify_done(q) ==
    /\ qual[q].pc = "loop"
    /\ qual[q].i > Len(qual[q].rows)
    /\ qual' = [qual EXCEPT ![q] = [@ EXCEPT !.pc = "returned"]]
    /\ UNCHANGED <<leads, outreach, clock, template, scored, csv, ups, agent, draft, send, invoked>>

draft_done(d) ==
    /\ draft[d].pc = "loop"
    /\ draft[d].i > Len(draft[d].rows)
    /\ draft' = [draft EXCEPT ![d] = [@ EXCEPT !.pc = "returned"]]
    /\ UNCHANGED <<leads, outreach, clock, template, scored, csv, ups, agent, qual, send, invoked>>

send_done(s) ==
    /\ send[s].pc = "loop"
    /\ send[s].i > Len(send[s].rows)
    /\ send' = [send EXCEPT ![s] = [@ EXCEPT !.pc = "returned"]]
    /\ UNCHANGED <<leads, outreach, clock, template, scored, csv, ups, agent, qual, draft, invoked>>

\* SpecPipeline: records are ingested, then `qualify`, `draft-emails` and
\* `send-emails` are run once each, in this order, every send succeeding (a
\* dry run, or SMTP configured and working).  send-emails is run also when
\* draft-emails ended with an exception.
NextPipeline ==
    \/ \E item \in RawItems : qual["q1"].pc = "idle" /\ cmd_search(item)
    \/ \E mr \in MinRatings, mv \in MinReviews, ms \in MinScores :
          leads # <<>> /\ qualify_select("q1", mr, mv, ms)
    \/ qualify_row("q1")
    \/ qualify_done("q1")
    \/ (qual["q1"].pc = "returned" /\ draft["d1"].pc = "idle" /\ draft_select("d1"))
    \/ draft_row("d1")
    \/ draft_done("d1")
    \/ \E dry \in BOOLEAN :
          /\ draft["d1"].pc \in {"returned", "raised"}
          /\ send["s1"].pc = "idle"
          /\ send_select("s1", dry, TRUE)
    \/ send_attempt("s1", TRUE)
    \/ send_update("s1")
    \/ send_done("s1")

SpecPipeline == Init /\ [][NextPipeline]_vars

\* ------------------------------------------------- the batch agent: scoring
\* the characters of the classes of the three regular expressions
Letters ==
    {"a", "b", "c", "d", "e", "f", "g", "h", "i", "j", "k", "l", "m", "n", "o",
     "p", "q", "r", "s", "t", "u", "v", "w", "x", "y", "z", "A", "B", "E", "G", "X"}
Digits == {"0", "1", "2", "3", "4", "5", "6", "7", "8", "9"}
Whitespace == {" ", "\t", "\n"}

\* EMAIL_RE.search(str): [A-Za-z0-9._%+-]+ @ [A-Za-z0-9.-]+ \. [A-Za-z]{2,}
\* somewhere in str; p is the place of the "@" and q of the "\."
EMAIL_RE_search(str) ==
    \E p \in 2..Len(str) : \E q \in (p + 2)..(Len(str) - 2) :
        /\ str[p] = "@"
        /\ str[p - 1] \in Letters \cup Digits \cup {".", "_", "%", "+", "-"}
        /\ \A k \in (p + 1)..(q - 1) : str[k] \in Letters \cup Digits \cup {".", "-"}
        /\ str[q] = "."
        /\ str[q + 1] \in Letters
        /\ str[q + 2] \in Letters

\* PHONE_RE.search(str): \+? \d [\d\s-]{6,} \d somewhere in str
PHONE_RE_search(str) ==
    \E i \in 1..Len(str) : \E j \in (i + 7)..Len(str) :
        /\ str[i] \in Digits
        /\ str[j] \in Digits
        /\ \A k \in (i + 1)..(j - 1) : str[k] \in Digits \cup Whitespace \cup {"-"}

\* IG_RE.search(str): ^ @? [A-Za-z0-9_.]{2,30} $, where $ is the end of str or
\* the place before a newline that ends str
IG_RE_search(str) ==
    LET cut == IF str # <<>> /\ str[Len(str)] = "\n"
               THEN SubSeq(str, 1, Len(str) - 1) ELSE str
        body == IF cut # <<>> /\ cut[1] = "@" THEN SubSeq(cut, 2, Len(cut)) ELSE cut
    IN  /\ Len(body) >= 2
        /\ Len(body) <= 30
        /\ \A k \in 1..Len(body) : body[k] \in Letters \cup Digits \cup {"_", "."}

\* sub in str
Contains(str, sub) ==
    \E i \in 1..(Len(str) - Len(sub) + 1) : SubSeq(str, i, i + Len(sub) - 1) = sub

\* the strings of the tables, as strs
real_estate == <<"r", "e", "a", "l", " ", "e", "s", "t", "a", "t", "e">>
restaurant == <<"r", "e", "s", "t", "a", "u", "r", "a", "n", "t">>
gym == <<"g", "y", "m">>
clinic == <<"c", "l", "i", "n", "i", "c">>
auto == <<"a", "u", "t", "o">>
salon == <<"s", "a", "l", "o", "n">>
cafe == <<"c", "a", "f", "e">>
email == <<"e", "m", "a", "i", "l">>
whatsapp == <<"w", "h", "a", "t", "s", "a", "p", "p">>
instagram == <<"i", "n", "s", "t", "a", "g", "r", "a", "m">>
linkedin == <<"l", "i", "n", "k", "e", "d", "i", "n">>
linkedin_com == linkedin \o <<".", "c", "o", "m">>

\* dict.get(key, default) on a dict given as a set of <<key, value>> pairs
DictGet(dict, key, default) ==
    IF \E e \in dict : e[1] = key
    THEN (CHOOSE e \in dict : e[1] = key)[2]
    ELSE default

NICHE_WEIGHTS ==
    {<<real_estate, 3>>, <<restaurant, 2>>, <<gym, 2>>, <<clinic, 3>>,
     <<auto, 2>>, <<salon, 2>>, <<cafe, 2>>}
PLATFORM_WEIGHTS ==
    {<<email, 3>>, <<whatsapp, 3>>, <<instagram, 2>>, <<linkedin, 2>>}

\* the set literal of qualify's last test
VisualNiches == {real_estate, restaurant, clinic, auto, salon, gym, cafe}

\* CONFIG["CITY"], which run_agent hands to qualify
CITY == "Dubai, UAE"

\* (mutant) the format bonus does not look at the platform
FormatBonusesAnyPlatform(lead) ==
    (IF EMAIL_RE_search(lead.contact)
     THEN <<[add |-> 2, tag |-> "valid_email"]>> ELSE <<>>)
    \o (IF PHONE_RE_search(lead.contact)
        THEN <<[add |-> 2, tag |-> "valid_phone"]>> ELSE <<>>)
    \o (IF IG_RE_search(lead.contact)
        THEN <<[add |-> 1, tag |-> "handle_ok"]>> ELSE <<>>)
    \o (IF Contains(lead.contact, linkedin_com)
        THEN <<[add |-> 1, tag |-> "linkedin_url"]>> ELSE <<>>)

\* qualify, lines 153-160: the four if statements in their order; each one
\* that fires adds to score and appends to notes
FormatBonuses(lead) ==
    (IF lead.platform = email /\ EMAIL_RE_search(lead.contact)
     THEN <<[add |-> 2, tag |-> "valid_email"]>> ELSE <<>>)
    \o (IF lead.platform = whatsapp /\ PHONE_RE_search(lead.contact)
        THEN <<[add |-> 2, tag |-> "valid_phone"]>> ELSE <<>>)
    \o (IF lead.platform = instagram /\ IG_RE_search(lead.contact)
        THEN <<[add |-> 1, tag |-> "handle_ok"]>> ELSE <<>>)
    \o (IF lead.platform = linkedin /\ Contains(lead.contact, linkedin_com)
        THEN <<[add |-> 1, tag |-> "linkedin_url"]>> ELSE <<>>)

\* qualify, lines 162-163
VisualBonus(lead) ==
    IF lead.niche \in VisualNiches
    THEN <<[add |-> 1, tag |-> "visual_niche"]>> ELSE <<>>

RECURSIVE SumAdds(_)
SumAdds(bs) == IF bs = <<>> THEN 0 ELSE bs[1].add + SumAdds(Tail(bs))

\* (mutant) the score is added to the one the Lead object carries
qualifyAccumulating(lead, city) ==
    LET bs == FormatBonuses(lead) \o VisualBonus(lead)
    IN  [lead EXCEPT
            !.score = lead.score + DictGet(NICHE_WEIGHTS, lead.niche, 1)
                      + DictGet(PLATFORM_WEIGHTS, lead.platform, 1) + SumAdds(bs),
            !.notes = [k \in 1..Len(bs) |-> bs[k].tag]]

\* qualify(lead, city): score starts at 0 and notes at []; the Lead object is
\* given its score and its notes (the tags, which "," joins) and is returned
qualify(lead, city) ==
    LET bs == FormatBonuses(lead) \o VisualBonus(lead)
    IN  [lead EXCEPT
            !.score = 0 + DictGet(NICHE_WEIGHTS, lead.niche, 1)
                      + DictGet(PLATFORM_WEIGHTS, lead.platform, 1) + SumAdds(bs),
            !.notes = [k \in 1..Len(bs) |-> bs[k].tag]]

\* (mutant) equal scores come out in the reverse of the input order
InsertBeforeTies(out, l) ==
    LET n == Cardinality({k \in 1..Len(out) : out[k].score > l.score})
    IN  SubSeq(out, 1, n) \o <<l>> \o SubSeq(out, n + 1, Len(out))

\* sorted(..., key=score, reverse=True) is stable: a lead goes behind every
\* lead of the output so far whose score is at least its own
InsertByScore(out, l) ==
    LET n == Cardinality({k \in 1..Len(out) : out[k].score >= l.score})
    IN  SubSeq(out, 1, n) \o <<l>> \o SubSeq(out, n + 1, Len(out))

RECURSIVE sorted_loop(_, _, _)
sorted_loop(ls, k, out) ==
    IF k > Len(ls) THEN out ELSE sorted_loop(ls, k + 1, InsertByScore(out, ls[k]))

\* sorted(leads, key=lambda x: x.score, reverse=True)
sorted_by_score(ls) == sorted_loop(ls, 1, <<>>)

\* Lead objects as load_leads and apply_filters leave them: score 0, notes ""
info_alnoorrealty_ae ==
    <<"i", "n", "f", "o", "@", "a", "l", "n", "o", "o", "r", "r", "e", "a",
      "l", "t", "y", ".", "a", "e">>
Al_Noor_Realty ==
    <<"A", "l", " ", "N", "o", "o", "r", " ", "R", "e", "a", "l", "t", "y">>
ScoreContacts ==
    {info_alnoorrealty_ae,
     <<"0", "5", "0", "1", "2", "3", "4", "5", "6", "7">>,
     linkedin_com \o <<"/", "x">>}
ScoreShapes ==
    [name : {Al_Noor_Realty}, niche : {real_estate},
     contact : ScoreContacts,
     platform : {email, whatsapp, instagram, linkedin, <<"s", "m", "s">>}]

NewLeads(shapes) ==
    [k \in 1..Len(shapes) |->
        [id |-> k, name |-> shapes[k].name, niche |-> shapes[k].niche,
         contact |-> shapes[k].contact, platform |-> shapes[k].platform,
         score |-> 0, notes |-> <<>>]]

\* the leads of the longer batches: known and unknown niches, no format bonus,
\* scores from 2 to 7
ExportShapes ==
    [name : {Al_Noor_Realty}, niche : {real_estate, gym, <<"s", "p", "a">>},
     contact : {<<"x">>}, platform : {email, <<"s", "m", "s">>}]

\* the filtered batch: up to MaxScored leads of any shape, or up to
\* MaxExported leads of the shapes without a format bonus
ScoreBatches ==
    {NewLeads(b) : b \in UNION {[1..n -> ScoreShapes] : n \in 1..MaxScored}}
    \cup {NewLeads(b) : b \in UNION {[1..n -> ExportShapes] : n \in 1..MaxExported}}

\* what a scorer is called with, and what it gave
Fields(l) == [name |-> l.name, niche |-> l.niche, contact |-> l.contact,
              platform |-> l.platform]

\* qualify is called on a lead of the batch (run_agent calls it on each lead,
\* in order; here any lead, any number of times)
qualify_call(k) ==
    /\ agent.pc = "filtered"
    /\ k \in 1..Len(agent.leads)
    /\ LET l == qualify(agent.leads[k], CITY)
       IN  /\ agent' = [agent EXCEPT !.leads[k] = l]
           /\ scored' = scored \cup
                  {[fn |-> "qualify", in |-> Fields(agent.leads[k]), cfg |-> <<CITY>>,
                    score |-> l.score,
                    tags |-> {l.notes[n] : n \in 1..Len(l.notes)}]}
    /\ UNCHANGED <<leads, outreach, clock, template, csv, ups, qual, draft, send, invoked>>

\* export_scored_csv(leads, path): the rows under the header, one per lead
export_scored_csv ==
    /\ agent.pc = "filtered"
    /\ agent' = [agent EXCEPT !.pc = "exported"]
    /\ csv' = [fn |-> "export_scored_csv", given |-> agent.leads,
               rows |-> sorted_by_score(agent.leads)]
    /\ UNCHANGED <<leads, outreach, clock, template, scored, ups, qual, draft, send, invoked>>

\* ------------------------------------------------- the CLI: scoring, export
\* rule_based_score is called on a stored lead
score_call(id, min_rating, min_reviews) ==
    /\ id \in LeadIds(leads)
    /\ LET lead == LeadById(leads, id)
           res == rule_based_score(lead, min_rating, min_reviews)
       IN  scored' = scored \cup
               {[fn |-> "rule_based_score",
                 in |-> [name |-> lead.name, rating |-> lead.rating,
                         review_count |-> lead.review_count,
                         email |-> lead.email, website |-> lead.website],
                 cfg |-> <<min_rating, min_reviews>>,
                 score |-> res.score, tags |-> res.notes]}
    /\ UNCHANGED <<leads, outreach, clock, template, csv, ups, agent, qual, draft, send, invoked>>

\* export_csv(stage, out_path): no file is written when no lead has the stage
export_csv(stage) ==
    LET rows == SelectByStage(leads, stage)
    IN  /\ csv' = IF rows = <<>> THEN csv
                  ELSE [fn |-> "export_csv", given |-> leads, stage |-> stage,
                        rows |-> rows]
        /\ UNCHANGED <<leads, outreach, clock, template, scored, ups, agent, qual, draft, send, invoked>>

\* the records the CLI ingests here: a rating under the threshold, no rating,
\* a rating at the threshold
ScoreItems == {item \in RawItems : item.rating # Some(45)}

InitScore ==
    /\ leads = <<>>
    /\ outreach = <<>>
    /\ clock = 0
    /\ template = EMAIL_TEMPLATE
    /\ ups = UpsInit
    /\ \/ agent = AgentIdle
       \/ \E b \in ScoreBatches : agent = [AgentIdle EXCEPT !.pc = "filtered", !.leads = b]
    /\ qual = [q \in Qualifiers |-> QIdle]
    /\ draft = [d \in Drafters |-> DIdle]
    /\ send = [s \in Senders |-> SIdle]
    /\ invoked = <<>>
    /\ scored = {}
    /\ csv = NoFile

\* SpecScore: a behaviour is a run of one of the two programs.  The batch
\* agent scores and exports a filtered batch of up to MaxScored leads; the CLI
\* ingests, qualifies, scores and exports the store.
NextScore ==
    \/ \E k \in 1..Len(agent.leads) : qualify_call(k)
    \/ export_scored_csv
    \/ \E item \in ScoreItems : agent.pc = "idle" /\ cmd_search(item)
    \/ \E mr \in MinRatings, mv \in MinReviews, ms \in MinScores :
          agent.pc = "idle" /\ qualify_select("q1", mr, mv, ms)
    \/ qualify_row("q1")
    \/ qualify_return("q1")
    \/ \E id \in LeadIds(leads), mr \in MinRatings, mv \in MinReviews :
          score_call(id, mr, mv)
    \/ \E stage \in Stages : agent.pc = "idle" /\ export_csv(stage)

SpecScore == InitScore /\ [][NextScore]_vars

\* ================================================================ claims
Ids(rows) == {rows[k].id : k \in 1..Len(rows)}

\* the natural identity of a lead: name and contact (the source is the same
\* for every ingested record)
Key(r) == <<r.name, r.email>>

\* C1: ingesting the same raw record twice (same name, contact and source,
\* possibly another rating) leaves exactly one stored lead of that identity.
C1_OneLeadPerIdentity ==
    \A j, k \in 1..Len(leads) : Key(leads[j]) = Key(leads[k]) => j = k

C4_QualifyPassResolvesNew ==
    \A q \in Qualifiers :
        LET st == qual[q] IN
        st.pc = "loop" =>
            /\ Len(st.log) = st.i - 1
            /\ \A k \in 1..Len(st.log) : st.log[k].id = st.rows[k].id
            /\ Cardinality(Ids(st.rows)) = Len(st.rows)
            /\ \A j \in 1..Len(st.rows) : st.rows[j].stage = "NEW"
            /\ st.nleads <= Len(leads)
            /\ \A k \in 1..st.nleads :
                  leads[k].stage = "NEW"
                  => \E j \in st.i..Len(st.rows) : st.rows[j].id = leads[k].id
            /\ (st.i > Len(st.rows) /\ Len(leads) = st.nleads)
                  => \A k \in 1..Len(leads) : leads[k].stage # "NEW"

\* C4 witness: a pass has gone through a snapshot of two NEW leads with no
\* ingestion in between and is about to return.
C4_Witness ==
    /\ qual["q1"].pc = "loop"
    /\ Len(qual["q1"].rows) = 2
    /\ qual["q1"].i > Len(qual["q1"].rows)
    /\ Len(leads) = qual["q1"].nleads

\* C5: every lead of the pass's snapshot is in QUALIFIED if the score of its
\* row is >= min_score and in DISQUALIFIED otherwise, and the count the pass
\* returns is the number of leads it moved to QUALIFIED.
C5_QualifiedIffScore ==
    \A q \in Qualifiers :
        LET st == qual[q]
            sc(r) == rule_based_score(r, st.min_rating, st.min_reviews).score
        IN  st.pc = "loop" =>
            /\ \A k \in 1..(st.i - 1) :
                  /\ sc(st.rows[k]) >= st.min_score
                        => LeadById(leads, st.rows[k].id).stage = "QUALIFIED"
                  /\ sc(st.rows[k]) < st.min_score
                        => LeadById(leads, st.rows[k].id).stage = "DISQUALIFIED"
            /\ st.count = Cardinality({k \in 1..(st.i - 1) :
                  LeadById(leads, st.rows[k].id).stage = "QUALIFIED"})

\* C5 witness: a finished pass qualified a lead whose score equals min_score
\* and disqualified another one.
C5_Witness ==
    LET st == qual["q1"] IN
    /\ st.pc = "loop"
    /\ st.i > Len(st.rows)
    /\ \E j, k \in 1..Len(st.rows) :
          /\ rule_based_score(st.rows[j], st.min_rating, st.min_reviews).score = st.min_score
          /\ LeadById(leads, st.rows[j].id).stage = "QUALIFIED"
          /\ LeadById(leads, st.rows[k].id).stage = "DISQUALIFIED"

\* the stage graph: the only changes of stage the pipeline makes
AllowedTransitions ==
    {<<"NEW", "QUALIFIED">>, <<"NEW", "DISQUALIFIED">>, <<"QUALIFIED", "CONTACTED">>}

\* C6: a stored lead's stage only ever changes NEW->QUALIFIED,
\* NEW->DISQUALIFIED or QUALIFIED->CONTACTED, in any interleaving of ingestion,
\* qualification, drafting and dispatch.
C6_MonotonicStages ==
    [][\A k \in 1..Len(leads) :
          leads'[k].stage # leads[k].stage
          => <<leads[k].stage, leads'[k].stage>> \in AllowedTransitions]_vars

\* C7: when an attempt is recorded, a success makes the message SENT with
\* sent_at and the provider id the send returned (a real send returns one) and
\* makes the lead CONTACTED; a failure makes the message ERROR with sent_at
\* set and no provider id, and leaves the lead's stage as it was.
C7_AttemptRecorded ==
    [][\A s \in Senders :
          (send[s].pc = "update" /\ send'[s].pc = "loop") =>
              LET st == send[s]
                  r == st.rows[st.i]
                  m == MsgById(outreach', r.oid)
              IN  /\ m.sent_at = Some(now)
                  /\ st.success =>
                        /\ m.status = "SENT"
                        /\ m.message_id = st.mid
                        /\ ~st.dry_run => m.message_id # None
                        /\ LeadById(leads', r.lid).stage = "CONTACTED"
                  /\ ~st.success =>
                        /\ m.status = "ERROR"
                        /\ m.message_id = None
                        /\ LeadById(leads', r.lid).stage = LeadById(leads, r.lid).stage
      ]_vars

\* C7 witness: a real run has recorded a failed and a successful attempt.
C7_Witness ==
    /\ ~send["s1"].dry_run
    /\ \E j, k \in 1..Len(send["s1"].log) :
          /\ ~send["s1"].log[j].success
          /\ MsgById(outreach, send["s1"].log[j].oid).status = "ERROR"
          /\ send["s1"].log[k].success
          /\ MsgById(outreach, send["s1"].log[k].oid).message_id # None

\* C8: when send_all has gone through its loop, every message of its snapshot
\* has been attempted, in order, and is SENT or ERROR, whichever attempts
\* failed, and the count it returns is the number of its successful attempts.
C8_LoopCompletes ==
    \A s \in Senders :
        LET st == send[s] IN
        /\ st.pc \in {"loop", "update"} =>
              /\ Len(st.log) = st.i - 1
              /\ st.i <= Len(st.rows) + 1
              /\ \A k \in 1..Len(st.log) :
                    /\ st.log[k].oid = st.rows[k].oid
                    /\ MsgById(outreach, st.rows[k].oid).status \in {"SENT", "ERROR"}
              /\ st.sent = Cardinality({k \in 1..Len(st.log) : st.log[k].success})
        /\ (st.pc = "loop" /\ st.i > Len(st.rows)) =>
              /\ \A k \in 1..Len(st.rows) :
                    MsgById(outreach, st.rows[k].oid).status \in {"SENT", "ERROR"}
              /\ st.sent = Cardinality({k \in 1..Len(st.rows) :
                    MsgById(outreach, st.rows[k].oid).status = "SENT"})

\* C8 witness: a real run is about to return after its first attempt failed
\* and its second succeeded.
C8_Witness ==
    LET st == send["s1"] IN
    /\ st.pc = "loop"
    /\ ~st.dry_run
    /\ Len(st.rows) = 2
    /\ st.i > Len(st.rows)
    /\ ~st.log[1].success
    /\ st.log[2].success
    /\ st.sent = 1

\* C9: in a run that is not a dry run, each call of send_email starts at least
\* 60 / SMTP_RATE_PER_MIN seconds after the previous call returned.
C9_RateLimit ==
    \A s \in Senders :
        LET st == send[s] IN
        \A k \in 2..Len(st.starts) : st.starts[k] - st.returns[k - 1] >= Interval

\* C9 witness: the third attempt of a run has started, after a send that took
\* time to return.
C9_Witness ==
    LET st == send["s1"] IN
    /\ Len(st.starts) = 3
    /\ \E k \in 1..2 : st.returns[k] > st.starts[k]

DraftsOf(os, lead_id) ==
    {m \in 1..Len(os) : os[m].lead_id = lead_id /\ os[m].status = "DRAFT"}

\* C11: an iteration of the draft step changes no lead's stage, creates no
\* message for a lead without an email, and for a lead that has an email (and
\* no DRAFT message yet) leaves exactly one DRAFT message.
C11_DraftStep ==
    [][\A d \in Drafters :
          (draft[d].pc = "loop" /\ draft[d].i <= Len(draft[d].rows)
           /\ draft'[d] # draft[d]) =>
              LET lead == draft[d].rows[draft[d].i] IN
              /\ \A k \in 1..Len(leads) : leads'[k].stage = leads[k].stage
              /\ ~Truthy(lead.email) => outreach' = outreach
              /\ (Truthy(lead.email) /\ DraftsOf(outreach, lead.id) = {})
                    => Cardinality(DraftsOf(outreach', lead.id)) = 1
      ]_vars

\* C12: no step of a qualification pass changes a lead whose stage is not NEW
\* (neither its stage nor its updated_at), and a pass started when no lead is
\* NEW has nothing to do, whatever its thresholds.
C12_QualifyIdempotent ==
    [][\A q \in Qualifiers :
          qual'[q] # qual[q] =>
              /\ \A k \in 1..Len(leads) :
                    leads[k].stage # "NEW" => leads'[k] = leads[k]
              /\ (qual[q].pc = "idle" /\ \A k \in 1..Len(leads) : leads[k].stage # "NEW")
                    => qual'[q].rows = <<>>
      ]_vars

\* C12 witness: time has passed since a lead was qualified, and a second pass
\* whose thresholds would disqualify it has found nothing to do.
C12_Witness ==
    LET st == qual["q1"] IN
    /\ st.pc = "loop"
    /\ st.rows = <<>>
    /\ \E k \in 1..Len(leads) :
          /\ leads[k].stage = "QUALIFIED"
          /\ leads[k].updated_at < now
          /\ rule_based_score(leads[k], st.min_rating, st.min_reviews).score < st.min_score
    /\ \E k \in 1..Len(leads) : leads[k].stage = "CONTACTED"

\* C13: when two concurrent upserts of one id are both done, the table has one
\* row of that id and it is what one of the two serial orders a;b gives: the
\* mutable fields and updated_at are b's, and id, stage and created_at are
\* those of the row stored before or, if there was none, of a's insert; every
\* other row is as it was.
C13_UpsertSerializable ==
    (\A u \in Callers : ups.callers[u].pc = "done") =>
        LET cs == ups.callers
            id == cs["u1"].lead[1].id
            base == ups.base
        IN  /\ Cardinality({k \in 1..Len(leads) : leads[k].id = id}) = 1
            /\ \A k \in 1..Len(base) : base[k].id # id => leads[k] = base[k]
            /\ \E a, b \in Callers :
                  LET r == LeadById(leads, id)
                      l == cs[b].lead[1]
                  IN  /\ a # b
                      /\ r.name = l.name /\ r.rating = l.rating
                      /\ r.review_count = l.review_count
                      /\ r.email = l.email /\ r.website = l.website
                      /\ r.updated_at = cs[b].t2
                      /\ IF id \in LeadIds(base)
                         THEN /\ r.stage = LeadById(base, id).stage
                              /\ r.created_at = LeadById(base, id).created_at
                         ELSE /\ r.stage = cs[a].lead[1].stage
                              /\ r.created_at = cs[a].t1

\* C13 witness: two upserts of a stored id, begun before either was executed,
\* with different name, email and stage and read at different seconds, are done.
C13_Witness ==
    LET cs == ups.callers IN
    /\ \A u \in Callers : cs[u].pc = "done"
    /\ cs["u1"].lead[1].id \in LeadIds(ups.base)
    /\ cs["u1"].lead[1].name # cs["u2"].lead[1].name
    /\ cs["u1"].lead[1].email # cs["u2"].lead[1].email
    /\ cs["u1"].lead[1].stage # cs["u2"].lead[1].stage
    /\ cs["u1"].t2 # cs["u2"].t2
    /\ LeadById(leads, cs["u1"].lead[1].id).updated_at = cs["u1"].t2

C15_SetStage ==
    [][ups'.last # ups.last =>
          LET c == ups'.last IN
          IF c.id \in LeadIds(leads)
          THEN /\ c.outcome = "returned"
               /\ LeadById(leads', c.id).stage = c.stage
               /\ LeadById(leads', c.id).updated_at = now
               /\ \A k \in 1..Len(leads) :
                     leads[k].id # c.id => leads'[k] = leads[k]
          ELSE /\ c.outcome = "NotFoundError"
               /\ leads' = leads
      ]_vars

\* C16: at every iteration boundary of a dispatcher run, and after the run is
\* stopped there, each message of its snapshot is attempted and SENT or ERROR,
\* or not attempted and DRAFT; the next run's snapshot holds, of the stopped
\* run's messages, exactly those it had not attempted.
C16_StopLeavesNoAmbiguity ==
    /\ [](\A s \in Senders :
            LET st == send[s] IN
            st.pc \in {"loop", "stopped"} =>
                \A k \in 1..Len(st.rows) :
                    MsgById(outreach, st.rows[k].oid).status
                        \in (IF k < st.i THEN {"SENT", "ERROR"} ELSE {"DRAFT"}))
    /\ [][\A s \in Senders :
            (send[s].pc = "stopped" /\ send'[s].pc = "loop") =>
                \A k \in 1..Len(send[s].rows) :
                    (k >= send[s].i) <=>
                        (\E j \in 1..Len(send'[s].rows) :
                            send'[s].rows[j].oid = send[s].rows[k].oid)
       ]_vars

\* C16 witness: a real run over two messages was stopped after its first
\* attempt, which failed.
C16_Witness ==
    LET st == send["s1"] IN
    /\ st.pc = "stopped"
    /\ ~st.dry_run
    /\ Len(st.rows) = 2
    /\ st.i = 2
    /\ ~st.log[1].success

\* C17: a dispatcher run attempts the messages of its snapshot in the order
\* fetched and no other: a message drafted after the snapshot is not in it, is
\* not sent and stays DRAFT while the run lasts; and the snapshot a run takes
\* holds every DRAFT message, so the next run attempts it.
C17_OneSnapshot ==
    /\ [](\A s \in Senders :
            LET st == send[s] IN
            st.pc \in {"loop", "update"} =>
                /\ \A k \in 1..Len(st.log) : st.log[k].oid = st.rows[k].oid
                /\ \A k \in 1..Len(st.rows) : st.rows[k].oid <= st.nmsgs
                /\ \A m \in (st.nmsgs + 1)..Len(outreach) :
                      /\ outreach[m].status = "DRAFT"
                      /\ invoked[m] = 0)
    /\ [][\A s \in Senders :
            (send[s].pc = "idle" /\ send'[s].pc = "loop") =>
                \A m \in 1..Len(outreach) :
                    outreach[m].status = "DRAFT" =>
                        \E j \in 1..Len(send'[s].rows) :
                            send'[s].rows[j].oid = outreach[m].id
       ]_vars

\* C17 witness: a real run has finished its snapshot of one message, and a
\* message drafted meanwhile is there, still DRAFT.
C17_Witness ==
    LET st == send["s1"] IN
    /\ st.pc = "loop"
    /\ ~st.dry_run
    /\ Len(st.rows) = 1
    /\ st.i > Len(st.rows)
    /\ st.nmsgs = 1
    /\ Len(outreach) = 2
    /\ outreach[2].status = "DRAFT"

CaseFoldKey(l) == <<Lower(l.name), Lower(l.contact), Lower(l.platform)>>

\* C19: the result of dedupe is a subsequence of its input in which no two
\* leads have the same case-folded key, every key of the input is there once,
\* as its first occurrence, and dedupe applied to the result returns it.
C19_Dedupe ==
    /\ agent.pc = "deduped" =>
          LET in == agent.leads
              out == agent.out
          IN  /\ \A k \in 1..Len(out) : out[k] = in[out[k].id]
              /\ \A j, k \in 1..Len(out) : j < k => out[j].id < out[k].id
              /\ \A j, k \in 1..Len(out) :
                    CaseFoldKey(out[j]) = CaseFoldKey(out[k]) => j = k
              /\ \A i \in 1..Len(in) :
                    \E k \in 1..Len(out) :
                        /\ CaseFoldKey(out[k]) = CaseFoldKey(in[i])
                        /\ out[k].id <= i
                        /\ \A j \in 1..(out[k].id - 1) :
                              CaseFoldKey(in[j]) # CaseFoldKey(in[i])
    /\ agent.pc = "again" => agent.out = agent.leads

\* C19 witness: a batch whose second lead repeated the key of the first was
\* reduced to its first and third lead, and dedupe was applied again.
C19_Witness ==
    /\ agent.pc = "again"
    /\ Len(agent.out) = 2
    /\ agent.out[2].id = 3
    /\ agent.out[1].name = <<"A">>
    /\ agent.out[1].platform = <<"E">>

\* the text of a raw cell ("" for a missing one), whether it is empty after
\* trimming, and what it is after trimming: the stretch of it outside which
\* there are only blanks and which neither starts nor ends with one
CellText(c) == IF c = None THEN <<>> ELSE c[1]
Blank(str) == \A k \in 1..Len(str) : str[k] = " "
IsTrimOf(t, str, i, j) ==
    /\ t = SubSeq(str, i, j)
    /\ \A k \in 1..Len(str) : (k < i \/ k > j) => str[k] = " "
    /\ t # <<>> => (t[1] # " " /\ t[Len(t)] # " ")
    /\ t = <<>> => (i = 1 /\ j = 0)
TrimOf(str) ==
    LET ij == CHOOSE p \in (1..(Len(str) + 1)) \X (0..Len(str)) :
                  IsTrimOf(SubSeq(str, p[1], p[2]), str, p[1], p[2])
    IN  SubSeq(str, ij[1], ij[2])

\* C20: a raw record yields no lead exactly when its name, contact or
\* platform is empty after trimming; every other record of the batch is in the
\* result as a lead with its trimmed name and contact and its trimmed,
\* lower-cased niche and platform, or is represented by an earlier lead of the
\* same key, whatever records were dropped before it.
C20_Normalizer ==
    agent.pc = "loaded" =>
        LET rows == agent.rows.rows
            out == agent.out
            dropped(r) == \/ Blank(CellText(r.Name))
                          \/ Blank(CellText(r.Contact))
                          \/ Blank(CellText(r.Platform))
            made(r) == [name |-> TrimOf(CellText(r.Name)),
                        niche |-> Lower(TrimOf(CellText(r.Niche))),
                        contact |-> TrimOf(CellText(r.Contact)),
                        platform |-> Lower(TrimOf(CellText(r.Platform)))]
        IN  /\ \A k \in 1..Len(out) :
                  /\ out[k].id \in 1..Len(rows)
                  /\ ~dropped(rows[out[k].id])
                  /\ out[k] = [id |-> out[k].id,
                               name |-> made(rows[out[k].id]).name,
                               niche |-> made(rows[out[k].id]).niche,
                               contact |-> made(rows[out[k].id]).contact,
                               platform |-> made(rows[out[k].id]).platform]
            /\ \A i \in 1..Len(rows) :
                  IF dropped(rows[i])
                  THEN \A k \in 1..Len(out) : out[k].id # i
                  ELSE \E k \in 1..Len(out) :
                          /\ out[k].id <= i
                          /\ CaseFoldKey(out[k]) = CaseFoldKey(made(rows[i]))

\* C20 witness: of two records read from a file with a lower-case header the
\* first, whose name is blank, was dropped and the second, with a padded
\* capital platform cell, became a lead.
C20_Witness ==
    /\ agent.pc = "loaded"
    /\ agent.rows.header = "lower"
    /\ Len(agent.rows.rows) = 2
    /\ agent.rows.rows[1].Name = Some(<<" ">>)
    /\ Len(agent.out) = 1
    /\ agent.out[1].id = 2
    /\ agent.rows.rows[2].Niche = Some(<<"G", " ">>)
    /\ agent.out[1].niche = <<"g">>
    /\ agent.out[1].platform = <<"e">>

\* the four contact-format tags
FormatTags == {"valid_email", "valid_phone", "handle_ok", "linkedin_url"}

\* the contact has the shape its stated platform expects
OwnShape(in) ==
    \/ in.platform = email /\ EMAIL_RE_search(in.contact)
    \/ in.platform = whatsapp /\ PHONE_RE_search(in.contact)
    \/ in.platform = instagram /\ IG_RE_search(in.contact)
    \/ in.platform = linkedin /\ Contains(in.contact, linkedin_com)

\* C21: every call of qualify gives score = niche weight (1 for an unknown
\* niche) + platform weight (1 for an unknown platform) + the format bonus of
\* the lead's own platform when the contact has that platform's shape (2 for
\* email and whatsapp, 1 for instagram and linkedin) + 1 for a visual niche;
\* at most one of the four format bonuses is applied; the lead {Al Noor
\* Realty, real estate, info@alnoorrealty.ae, email} scores 9.
C21_QualifyScore ==
    \A e \in scored :
        e.fn = "qualify" =>
            /\ e.score =
                  DictGet(NICHE_WEIGHTS, e.in.niche, 1)
                  + DictGet(PLATFORM_WEIGHTS, e.in.platform, 1)
                  + (IF ~OwnShape(e.in) THEN 0
                     ELSE IF e.in.platform \in {email, whatsapp} THEN 2 ELSE 1)
                  + (IF e.in.niche \in VisualNiches THEN 1 ELSE 0)
            /\ Cardinality(e.tags \cap FormatTags) <= 1
            /\ (e.in = [name |-> Al_Noor_Realty, niche |-> real_estate,
                        contact |-> info_alnoorrealty_ae, platform |-> email])
                  => e.score = 9

\* the scenario lead has been scored, and so has a lead whose contact has the
\* shape of another platform as well as its own
C21_Witness ==
    /\ \E e \in scored :
          /\ e.fn = "qualify"
          /\ e.in = [name |-> Al_Noor_Realty, niche |-> real_estate,
                     contact |-> info_alnoorrealty_ae, platform |-> email]
          /\ e.score = 9
    /\ \E e \in scored :
          /\ e.fn = "qualify"
          /\ e.in.platform = instagram
          /\ PHONE_RE_search(e.in.contact)
          /\ IG_RE_search(e.in.contact)

RowScore(r) == IF "score" \in DOMAIN r THEN r.score ELSE 0

\* the leads an export was given: the batch, or the stored leads of the stage
GivenIds(f) ==
    IF f.fn = "export_csv"
    THEN {f.given[k].id : k \in {n \in 1..Len(f.given) : f.given[n].stage = f.stage}}
    ELSE {f.given[k].id : k \in 1..Len(f.given)}

\* C23: the file an export wrote lists exactly the leads it was given, each
\* once and as given, by score descending, leads of equal score (and leads
\* that carry no score) in their input (insertion) order.
C23_ExportSorted ==
    csv.fn # "none" =>
        /\ Len(csv.rows) = Cardinality(GivenIds(csv))
        /\ {csv.rows[k].id : k \in 1..Len(csv.rows)} = GivenIds(csv)
        /\ \A k \in 1..Len(csv.rows) : csv.rows[k] = csv.given[csv.rows[k].id]
        /\ \A i, j \in 1..Len(csv.rows) :
              i < j =>
                  /\ RowScore(csv.rows[i]) >= RowScore(csv.rows[j])
                  /\ RowScore(csv.rows[i]) = RowScore(csv.rows[j])
                        => csv.rows[i].id < csv.rows[j].id

\* three scored leads were exported: the first of the input has the lowest
\* score and the other two are tied
C23_Witness ==
    /\ csv.fn = "export_scored_csv"
    /\ Len(csv.given) = 3
    /\ csv.given[1].score > 0
    /\ csv.given[1].score < csv.given[2].score
    /\ csv.given[2].score = csv.given[3].score
    /\ csv.rows = <<csv.given[2], csv.given[3], csv.given[1]>>

C25_UpsertStage ==
    [][\A u \in Callers :
          (ups.callers[u].pc = "exec" /\ ups'.callers[u].pc = "done") =>
              LET id == ups.callers[u].lead[1].id
              IN  IF id \in LeadIds(leads)
                  THEN /\ LeadById(leads', id).stage = LeadById(leads, id).stage
                       /\ LeadById(leads', id).created_at = LeadById(leads, id).created_at
                  ELSE LeadById(leads', id).stage = "NEW"
      ]_vars

\* the tag qualify gives to the format bonus of a platform
FormatTagOf(platform) ==
    CASE platform = email -> "valid_email"
      [] platform = whatsapp -> "valid_phone"
      [] platform = instagram -> "handle_ok"
      [] platform = linkedin -> "linkedin_url"
      [] OTHER -> "none"

\* C26: the tags of a scorer's result are exactly the bonuses that fired.
\* rule_based_score: "rating" iff the rating bonus (rating present and at least
\* min_rating), "reviews" iff the review bonus, and one further tag for each of
\* the website and email bonuses that fired and none otherwise.  qualify: the
\* format tag of the lead's platform iff its format bonus, no other format
\* tag, and "visual_niche" iff the visual-niche bonus.
C26_TagsAreBonuses ==
    \A e \in scored :
        /\ e.fn = "rule_based_score" =>
              /\ "rating" \in e.tags
                    <=> (~IsNone(e.in.rating) /\ e.in.rating[1] >= e.cfg[1])
              /\ "reviews" \in e.tags
                    <=> (~IsNone(e.in.review_count) /\ e.in.review_count[1] >= e.cfg[2])
              /\ Cardinality(e.tags \ {"rating", "reviews"})
                    = (IF Truthy(e.in.website) THEN 1 ELSE 0)
                      + (IF Truthy(e.in.email) THEN 1 ELSE 0)
        /\ e.fn = "qualify" =>
              /\ e.tags \cap FormatTags
                    = (IF OwnShape(e.in) THEN {FormatTagOf(e.in.platform)} ELSE {})
              /\ "visual_niche" \in e.tags <=> e.in.niche \in VisualNiches
              /\ e.tags \subseteq FormatTags \cup {"visual_niche"}

MessagesOf(os, lead_id) == {m \in 1..Len(os) : os[m].lead_id = lead_id}

\* C29: when qualify, draft-emails and send-emails have been run in this
\* order over a store of NEW leads without messages, every send succeeding,
\* each lead whose score is at least min_score is CONTACTED with exactly one
\* message, which is SENT, if it has an email, and QUALIFIED with no message
\* if it has none; every other lead is DISQUALIFIED with no message.
C29_EndToEnd ==
    send["s1"].pc = "returned" =>
        \A k \in 1..Len(leads) :
            LET lead == leads[k]
                q == qual["q1"]
                score == rule_based_score(lead, q.min_rating, q.min_reviews).score
                msgs == MessagesOf(outreach, lead.id)
            IN  IF score >= q.min_score /\ Truthy(lead.email)
                THEN /\ lead.stage = "CONTACTED"
                     /\ Cardinality(msgs) = 1
                     /\ \A m \in msgs : outreach[m].status = "SENT"
                ELSE IF score >= q.min_score
                THEN lead.stage = "QUALIFIED" /\ msgs = {}
                ELSE lead.stage = "DISQUALIFIED" /\ msgs = {}

====
